---- MODULE Spec2Model ----
(***************************************************************************)
(* Token-bucket rate limiter: the TokenBucket engine, the MemoryStorage    *)
(* reference store and the calls of the RateLimiter facade.                *)
(*                                                                         *)
(* Token amounts are JavaScript numbers and may be fractional.  They are   *)
(* held here as integers counting units of 1/Scale token, so a bucket of   *)
(* `capacity` tokens holds capacity * Scale units and Math.floor(tokens)   *)
(* is units \div Scale.  Times are milliseconds.                           *)
(***************************************************************************)
EXTENDS Integers, Sequences, FiniteSets, TLC

\* ---------------------------------------------------------------- bounds

\* Units per token: the resolution of fractional token amounts.
Scale == 2

\* The clock runs from 0 to MaxTicks * 500 ms.
MaxTicks == 8

Horizon == MaxTicks * 500

\* Amounts by which the clock may advance between two steps.
Steps == {500, 1000}

Keys == {"a", "b"}

Callers == {"c1", "c2"}

\* The key and the caller of the specifications that follow one bucket
\* through a sequential run.
OneKey == {"a"}

OneCaller == {"c1"}

\* calculateRetryAfter divides milliseconds by this to get seconds.
MsPerSecond == 1000

\* Limiter options, {capacity (tokens), refillRate (units), refillInterval (ms)}.
\* They cover a rate of one token, a rate below one token, a rate above the
\* capacity, and a capacity that is no multiple of the rate.
Options ==
    { [capacity |-> 2, refillRate |-> Scale,     refillInterval |-> 1000],
      [capacity |-> 1, refillRate |-> Scale,     refillInterval |-> 1000],
      [capacity |-> 1, refillRate |-> 1,         refillInterval |-> 1000],
      [capacity |-> 1, refillRate |-> 3 * Scale, refillInterval |-> 2000],
      [capacity |-> 3, refillRate |-> 2 * Scale, refillInterval |-> 1500] }

\* The options of the specifications that follow two keys.
SmallOptions ==
    { [capacity |-> 2, refillRate |-> Scale, refillInterval |-> 1000],
      [capacity |-> 1, refillRate |-> Scale, refillInterval |-> 1000] }

\* Whole amounts, for the specifications that follow two keys.
WholeAmounts == {Scale, 2 * Scale}

\* The amounts above zero: a fraction of a token, one token, two tokens.
PositiveAmounts == {1, Scale, 2 * Scale}

\* Amounts (units) a caller may pass to consume(key, tokens); Scale is the
\* default of one token.  The engine does not validate the amount.
Amounts == {0 - Scale, 1, Scale, 2 * Scale}

\* ------------------------------------------------------------- variables

VARIABLES
    capacity,        \* TokenBucket.capacity, in units
    refillRate,      \* TokenBucket.refillRate, in units
    refillInterval,  \* TokenBucket.refillInterval, in ms
    ownsStorage,     \* RateLimiter.ownsStorage
    clock,           \* Date.now()
    store,           \* MemoryStorage.store: key -> [state, expiresAt]
    cleanupTimer,    \* MemoryStorage.cleanupTimer is set (TRUE) or null (FALSE)
    call,            \* per caller: the check/consume call it is in
    result,          \* per caller: the RateLimitResult of its last call
    burst,           \* observer: single-token consumes since a key was first seen
    emptied,         \* observer: when and how a key's bucket was last emptied
    lastCheck,       \* observer: the result of the last check of a key
    retryAt,         \* observer: the instant a rejection told the caller to retry
    reset,           \* observer: a resetAt a call reported, and when
    reference,       \* observer: the real-time bucket of a key
    fault,           \* per caller: store failures met by its call
    last,            \* observer: the last operation made on the store directly
    request,         \* per caller: the request its middleware call handles
    written,         \* observer: what the last consume of a key wrote, and when
    lineage,         \* observer: the first and the latest lastRefill written for a key's bucket
    shadow,          \* observer: the table of the same store had no sweep run
    admittedSince,   \* observer: the tokens consume has admitted on a key, and since when
    pending          \* per caller: the request it keeps retrying until admitted

config == <<capacity, refillRate, refillInterval, ownsStorage>>

program == <<clock, store, cleanupTimer, call, result>>

\* The state of the Express middleware and the observers of the claims about
\* the write-back of consume.
later == <<request, written, lineage, shadow, admittedSince, pending>>

\* The observers of the claims about resetAt, the real-time bucket, store
\* failures and the store's own operations.
more == <<reset, reference, fault, last, later>>

observers == <<burst, emptied, lastCheck, retryAt, more>>

vars == <<config, program, observers>>

\* --------------------------------------------------------------- helpers

Min(a, b) == IF a <= b THEN a ELSE b

Max(a, b) == IF a >= b THEN a ELSE b

\* Math.floor(a / b) and Math.ceil(a / b) for b > 0.
FloorDiv(a, b) == a \div b

CeilDiv(a, b) == 0 - ((0 - a) \div b)

\* Math.floor of a token amount held in units.
floor(tokens) == tokens \div Scale

\* ---------------------------------------------------------- MemoryStorage

\* Map.delete
mapDelete(s, key) == [k \in DOMAIN s \ {key} |-> s[k]]

\* An entry counted as expired only after its expiry instant.
isExpiredAfter(entry, now) == entry.expiresAt < now

\* An entry whose expiry instant has been reached.
isExpired(entry, now) == entry.expiresAt <= now

\* MemoryStorage.get: the value returned, {} for null.
get(s, key, now) ==
    IF key \notin DOMAIN s THEN {}
    ELSE IF isExpired(s[key], now) THEN {}
    ELSE {s[key].state}

\* MemoryStorage.get: the table it leaves (an expired entry is deleted).
getStore(s, key, now) ==
    IF key \in DOMAIN s /\ isExpired(s[key], now) THEN mapDelete(s, key) ELSE s

\* set writing the entry under every key of the table.
setShared(s, key, state, ttl, now) ==
    [k \in DOMAIN s \cup {key} |-> [state |-> state, expiresAt |-> now + ttl]]

\* set keeping the later of the entry's expiry and the new one.
setKeepLongest(s, key, state, ttl, now) ==
    [k \in DOMAIN s \cup {key} |->
        IF k = key
        THEN [state |-> state,
              expiresAt |-> IF key \in DOMAIN s
                            THEN Max(s[key].expiresAt, now + ttl) ELSE now + ttl]
        ELSE s[k]]

\* MemoryStorage.set
set(s, key, state, ttl, now) ==
    [k \in DOMAIN s \cup {key} |->
        IF k = key THEN [state |-> state, expiresAt |-> now + ttl] ELSE s[k]]

\* MemoryStorage.delete
delete(s, key) == mapDelete(s, key)

\* cleanup testing `entry.expiresAt < now`: an entry is kept at its expiry
\* instant.
cleanupStrict(s, now) == [k \in {x \in DOMAIN s : s[x].expiresAt >= now} |-> s[k]]

\* A sweep with its comparison reversed: it removes the entries still live.
cleanupReversed(s, now) == [k \in {x \in DOMAIN s : isExpired(s[x], now)} |-> s[k]]

\* MemoryStorage.cleanup
cleanup(s, now) == [k \in {x \in DOMAIN s : ~isExpired(s[x], now)} |-> s[k]]

\* MemoryStorage.size
size(s) == Cardinality(DOMAIN s)

\* ------------------------------------------------------------ TokenBucket

\* TokenBucket.ttlMs = Math.ceil((capacity / refillRate) * refillInterval) * 2
ttlMs == CeilDiv(capacity * refillInterval, refillRate) * 2

\* Elapsed intervals rounded up: a partial interval counts as a whole one.
intervalsElapsedCeil(state, now) == CeilDiv(now - state.lastRefill, refillInterval)

intervalsElapsed(state, now) == FloorDiv(now - state.lastRefill, refillInterval)

\* calculateTokens without the refill: the stored tokens, capped.
calculateTokensStored(state, now) == Min(capacity, state.tokens)

calculateTokens(state, now) ==
    Min(capacity, state.tokens + intervalsElapsed(state, now) * refillRate)

\* calculateLastRefill moving the last refill to the time of the call.
calculateLastRefillNow(state, now) == now

\* calculateLastRefill never moving the last refill.
calculateLastRefillKept(state, now) == state.lastRefill

calculateLastRefill(state, now) ==
    state.lastRefill + intervalsElapsed(state, now) * refillInterval

\* calculateResetAt rounding the intervals needed down instead of up.
calculateResetAtFloor(tokens, lastRefill) ==
    IF tokens >= capacity THEN lastRefill
    ELSE lastRefill + FloorDiv(capacity - tokens, refillRate) * refillInterval

calculateResetAt(tokens, lastRefill) ==
    IF tokens >= capacity THEN lastRefill
    ELSE lastRefill + CeilDiv(capacity - tokens, refillRate) * refillInterval

\* calculateRetryAfter rounding down instead of up.
calculateRetryAfterFloor(lastRefill, now) ==
    Max(0, FloorDiv(lastRefill + refillInterval - now, MsPerSecond))

calculateRetryAfter(lastRefill, now) ==
    Max(0, CeilDiv(lastRefill + refillInterval - now, MsPerSecond))

\* getOrCreateState, given what storage.get returned.
\* A missing entry read as an empty bucket.
getOrCreateStateEmpty(existing, now) ==
    IF existing # {} THEN CHOOSE st \in existing : TRUE
    ELSE [tokens |-> 0, lastRefill |-> now]

getOrCreateState(existing, now) ==
    IF existing # {} THEN CHOOSE st \in existing : TRUE
    ELSE [tokens |-> capacity, lastRefill |-> now]

\* The optional retryAfter is a set: empty when the field is absent.
buildResult(allowed, tokens, lastRefill, now) ==
    [allowed    |-> allowed,
     remaining  |-> floor(tokens),
     resetAt    |-> calculateResetAt(tokens, lastRefill),
     retryAfter |-> IF ~allowed THEN {calculateRetryAfter(lastRefill, now)} ELSE {}]

\* consume's test written `currentTokens <= tokens`.
admitsStrict(currentTokens, tokens) == ~(currentTokens <= tokens)

\* consume's test `currentTokens < tokens`, negated.
admits(currentTokens, tokens) == ~(currentTokens < tokens)

\* check's verdict `tokens >= 1`.
checkAllows(tokens) == tokens >= Scale

\* consume persisting the refilled count without subtracting the amount.
consumedStateUnchanged(currentTokens, tokens, lastRefill) ==
    [tokens |-> currentTokens, lastRefill |-> lastRefill]

\* The state consume persists when it admits.
consumedState(currentTokens, tokens, lastRefill) ==
    [tokens |-> currentTokens - tokens, lastRefill |-> lastRefill]

\* ----------------------------------------------------------------- calls

NoState == [tokens |-> 0, lastRefill |-> 0]

IdleCall ==
    [pc |-> "idle", op |-> "none", key |-> "none", tokens |-> 0, now |-> 0,
     state |-> NoState]

\* No store failure met: no error injected, none thrown, no attempts counted.
NoFault == [injected |-> {}, thrown |-> {}, gets |-> 0, sets |-> 0]

\* No operation made on the store directly yet.  An operation is noted with
\* its arguments, the time, what get returned ({} for null), the entry of the
\* key it found in the table and what size() returns before and after it.
NoOperation ==
    [op |-> "none", key |-> "none", state |-> NoState, ttlMs |-> 0, at |-> 0,
     returned |-> {}, found |-> {}, sizeBefore |-> 0, size |-> 0]

\* No request handled yet.  A request records whether skip(req) held, the key
\* keyGenerator(req) gave, how often limiter.consume was called and the calls
\* made to next and onRateLimited, in order.
NoRequest == [pc |-> "none", skip |-> FALSE, key |-> "none", consumes |-> 0, exits |-> <<>>]

NoResult == [allowed |-> FALSE, remaining |-> 0, resetAt |-> 0, retryAfter |-> {}]

\* The first half of check and consume: `now = Date.now()` and the body of
\* storage.get run in one synchronous stretch; the call then suspends.
begin(c, op, key, tokens) ==
    /\ call[c].pc # "await"
    /\ call' = [call EXCEPT ![c] =
                  [pc |-> "await", op |-> op, key |-> key, tokens |-> tokens,
                   now |-> clock,
                   state |-> getOrCreateState(get(store, key, clock), clock)]]
    /\ store' = getStore(store, key, clock)
    /\ UNCHANGED <<config, clock, cleanupTimer, result>>

check(c, key) == begin(c, "check", key, 0)

consume(c, key, tokens) == begin(c, "consume", key, tokens)

\* check writing the refilled state back to the store.
checkReturnPersist(c) ==
    /\ call[c].pc = "await"
    /\ call[c].op = "check"
    /\ LET now == call[c].now
           tokens == calculateTokens(call[c].state, now)
           lastRefill == calculateLastRefill(call[c].state, now)
       IN  /\ result' = [result EXCEPT ![c] =
                           buildResult(checkAllows(tokens), tokens, lastRefill, now)]
           /\ store' = set(store, call[c].key,
                           [tokens |-> tokens, lastRefill |-> lastRefill], ttlMs, clock)
    /\ call' = [call EXCEPT ![c].pc = "done"]
    /\ UNCHANGED <<config, clock, cleanupTimer>>

\* The rest of check, after the await.
checkReturn(c) ==
    /\ call[c].pc = "await"
    /\ call[c].op = "check"
    /\ LET now == call[c].now
           tokens == calculateTokens(call[c].state, now)
           lastRefill == calculateLastRefill(call[c].state, now)
       IN  result' = [result EXCEPT ![c] =
                        buildResult(checkAllows(tokens), tokens, lastRefill, now)]
    /\ call' = [call EXCEPT ![c].pc = "done"]
    /\ UNCHANGED <<config, clock, store, cleanupTimer>>

\* consume writing the recomputed refill back when it rejects.
consumeReturnWriteBack(c) ==
    /\ call[c].pc = "await"
    /\ call[c].op = "consume"
    /\ LET now == call[c].now
           tokens == call[c].tokens
           currentTokens == calculateTokens(call[c].state, now)
           lastRefill == calculateLastRefill(call[c].state, now)
           kept == IF currentTokens < tokens THEN 0 ELSE tokens
           newState == consumedState(currentTokens, kept, lastRefill)
       IN  /\ store' = set(store, call[c].key, newState, ttlMs, clock)
           /\ result' = [result EXCEPT ![c] =
                           buildResult(~(currentTokens < tokens), newState.tokens,
                                       lastRefill, now)]
    /\ call' = [call EXCEPT ![c].pc = "done"]
    /\ UNCHANGED <<config, clock, cleanupTimer>>

\* consume reading the entry again when it resumes, so that the read and the
\* write are one step.
consumeReturnAtomic(c) ==
    /\ call[c].pc = "await"
    /\ call[c].op = "consume"
    /\ LET now == call[c].now
           tokens == call[c].tokens
           state == getOrCreateState(get(store, call[c].key, clock), now)
           currentTokens == calculateTokens(state, now)
           lastRefill == calculateLastRefill(state, now)
           newState == consumedState(currentTokens, tokens, lastRefill)
       IN  IF ~admits(currentTokens, tokens)
           THEN /\ result' = [result EXCEPT ![c] =
                                buildResult(FALSE, currentTokens, lastRefill, now)]
                /\ store' = store
           ELSE /\ store' = set(store, call[c].key, newState, ttlMs, clock)
                /\ result' = [result EXCEPT ![c] =
                                buildResult(TRUE, newState.tokens, lastRefill, now)]
    /\ call' = [call EXCEPT ![c].pc = "done"]
    /\ UNCHANGED <<config, clock, cleanupTimer>>

\* The rest of consume, after the await: the rejection, or storage.set (whose
\* body reads Date.now() again) and the admission.
consumeReturn(c) ==
    /\ call[c].pc = "await"
    /\ call[c].op = "consume"
    /\ LET now == call[c].now
           tokens == call[c].tokens
           currentTokens == calculateTokens(call[c].state, now)
           lastRefill == calculateLastRefill(call[c].state, now)
           newState == consumedState(currentTokens, tokens, lastRefill)
       IN  IF ~admits(currentTokens, tokens)
           THEN /\ result' = [result EXCEPT ![c] =
                                buildResult(FALSE, currentTokens, lastRefill, now)]
                /\ store' = store
           ELSE /\ store' = set(store, call[c].key, newState, ttlMs, clock)
                /\ result' = [result EXCEPT ![c] =
                                buildResult(TRUE, newState.tokens, lastRefill, now)]
    /\ call' = [call EXCEPT ![c].pc = "done"]
    /\ UNCHANGED <<config, clock, cleanupTimer>>

\* ------------------------------------------------------- store failures

\* Errors a storage adapter may reject get or set with.
Errors == {"unavailable", "timeout"}

\* check or consume whose storage.get rejects with error e: the await in
\* getOrCreateState throws, nothing catches it, and the call rejects with e.
getFails(c, op, key, tokens, e) ==
    /\ call[c].pc # "await"
    /\ call' = [call EXCEPT ![c] =
                  [pc |-> "failed", op |-> op, key |-> key, tokens |-> tokens,
                   now |-> clock, state |-> NoState]]
    /\ fault' = [fault EXCEPT ![c] =
                   [injected |-> {[error |-> e, on |-> "get"]}, thrown |-> {e},
                    gets |-> 1, sets |-> 0]]
    /\ UNCHANGED <<config, clock, store, cleanupTimer, result>>

\* consume catching the rejection of storage.set and calling set again.
setFailsRetried(c, e) ==
    /\ call[c].pc = "await"
    /\ call[c].op = "consume"
    /\ LET now == call[c].now
           tokens == call[c].tokens
           currentTokens == calculateTokens(call[c].state, now)
           lastRefill == calculateLastRefill(call[c].state, now)
           newState == consumedState(currentTokens, tokens, lastRefill)
       IN  /\ admits(currentTokens, tokens)
           /\ store' = set(store, call[c].key, newState, ttlMs, clock)
           /\ result' = [result EXCEPT ![c] =
                           buildResult(TRUE, newState.tokens, lastRefill, now)]
    /\ call' = [call EXCEPT ![c].pc = "done"]
    /\ fault' = [fault EXCEPT ![c] =
                   [injected |-> {[error |-> e, on |-> "set"]}, thrown |-> {},
                    gets |-> @.gets, sets |-> @.sets + 2]]
    /\ UNCHANGED <<config, clock, cleanupTimer>>

\* The rest of an admitted consume whose storage.set rejects with error e:
\* the await throws, nothing catches it, and the call rejects with e without
\* reaching buildResult.  The failed set has written nothing.
setFails(c, e) ==
    /\ call[c].pc = "await"
    /\ call[c].op = "consume"
    /\ admits(calculateTokens(call[c].state, call[c].now), call[c].tokens)
    /\ call' = [call EXCEPT ![c].pc = "failed"]
    /\ fault' = [fault EXCEPT ![c] =
                   [injected |-> {[error |-> e, on |-> "set"]}, thrown |-> {e},
                    gets |-> @.gets, sets |-> @.sets + 1]]
    /\ UNCHANGED <<config, clock, store, cleanupTimer, result>>

\* ------------------------------------------------------- the environment

\* Time passes.
tick(d) ==
    /\ clock + d <= Horizon
    /\ clock' = clock + d
    /\ UNCHANGED <<config, store, cleanupTimer, call, result>>

\* The setInterval callback of startCleanup fires.
sweep ==
    /\ cleanupTimer
    /\ store' = cleanup(store, clock)
    /\ UNCHANGED <<config, clock, cleanupTimer, call, result>>

\* A caller reads and writes a key through the storage adapter.
getKey(key) ==
    /\ store' = getStore(store, key, clock)
    /\ UNCHANGED <<config, clock, cleanupTimer, call, result>>

setKey(key, state, ttl) ==
    /\ store' = set(store, key, state, ttl, clock)
    /\ UNCHANGED <<config, clock, cleanupTimer, call, result>>

\* A caller deletes a key through the storage adapter.
deleteKey(key) ==
    /\ store' = delete(store, key)
    /\ UNCHANGED <<config, clock, cleanupTimer, call, result>>

\* A teardown that clears the table and leaves the sweep timer running.
destroyLeavesTimer ==
    /\ store' = <<>>
    /\ UNCHANGED <<config, clock, cleanupTimer, call, result>>

\* MemoryStorage.destroy: the timer is cleared and the table emptied.
destroy ==
    /\ cleanupTimer' = FALSE
    /\ store' = <<>>
    /\ UNCHANGED <<config, clock, call, result>>

\* -------------------------------------------------------- specifications

\* A limiter constructed with one of the options; owners says whether it may
\* create its own MemoryStorage (TRUE) or be given the caller's (FALSE).
Constructed(options, owners) ==
    /\ \E o \in options :
          /\ capacity = o.capacity * Scale
          /\ refillRate = o.refillRate
          /\ refillInterval = o.refillInterval
    /\ ownsStorage \in owners
    /\ clock = 0
    /\ store = <<>>
    /\ cleanupTimer = TRUE
    /\ call = [c \in Callers |-> IdleCall]
    /\ result = [c \in Callers |-> NoResult]
    /\ burst = [k \in Keys |-> 0]
    /\ emptied = [k \in Keys |-> {}]
    /\ lastCheck = [k \in Keys |-> {}]
    /\ retryAt = [k \in Keys |-> {}]
    /\ reset = [k \in Keys |-> {}]
    /\ reference = [k \in Keys |-> {}]
    /\ fault = [c \in Callers |-> NoFault]
    /\ last = NoOperation
    /\ request = [c \in Callers |-> NoRequest]
    /\ written = [k \in Keys |-> {}]
    /\ lineage = [k \in Keys |-> {}]
    /\ shadow = <<>>
    /\ admittedSince = [k \in Keys |-> {}]
    /\ pending = [c \in Callers |-> {}]

\* new RateLimiter(options) without a storage option.
InitWith(options) == Constructed(options, {TRUE})

Init == InitWith(Options)

\* One caller making check and consume calls on one key, one call at a time,
\* with any amount, while time passes, the sweep runs, the key is deleted and
\* the limiter is destroyed.
Next ==
    \/ \E c \in OneCaller, k \in OneKey : check(c, k) /\ UNCHANGED observers
    \/ \E c \in OneCaller, k \in OneKey, n \in Amounts :
          consume(c, k, n) /\ UNCHANGED observers
    \/ \E c \in OneCaller : checkReturn(c) /\ UNCHANGED observers
    \/ \E c \in OneCaller : consumeReturn(c) /\ UNCHANGED observers
    \/ \E d \in Steps : tick(d) /\ UNCHANGED observers
    \/ sweep /\ UNCHANGED observers
    \/ \E k \in OneKey : deleteKey(k) /\ UNCHANGED observers
    \/ destroy /\ UNCHANGED observers

Spec == Init /\ [][Next]_vars

\* One caller making check and consume calls on two keys, one call at a time,
\* while time passes and the sweep runs.
KeysInit == InitWith(SmallOptions)

KeysNext ==
    \/ \E c \in OneCaller, k \in Keys : check(c, k) /\ UNCHANGED observers
    \/ \E c \in OneCaller, k \in Keys, n \in WholeAmounts :
          consume(c, k, n) /\ UNCHANGED observers
    \/ \E c \in OneCaller : checkReturn(c) /\ UNCHANGED observers
    \/ \E c \in OneCaller : consumeReturn(c) /\ UNCHANGED observers
    \/ \E d \in Steps : tick(d) /\ UNCHANGED observers
    \/ sweep /\ UNCHANGED observers

KeysSpec == KeysInit /\ [][KeysNext]_vars

\* ---- observers: what a test keeps in local variables between calls

\* The entry a get of k at time now would read, if any.
Readable(s, k, now) ==
    IF k \in DOMAIN s /\ s[k].expiresAt > now THEN {s[k]} ELSE {}

\* The refilled token count tokens(now) of a loaded state, as the refill rule
\* states it: whole elapsed intervals each grant refillRate, up to capacity.
RefilledTokens(state, now) ==
    LET whole == (now - state.lastRefill) \div refillInterval
    IN  IF state.tokens + whole * refillRate > capacity THEN capacity
        ELSE state.tokens + whole * refillRate

\* burst[k]: the number of single-token consumes of k returned since k was
\* first seen, while no time has passed since; -1 once time has passed.
countBurst(c) ==
    burst' = [burst EXCEPT ![call[c].key] =
                IF @ < 0 THEN @ ELSE Min(@ + 1, capacity \div Scale + 2)]

endBursts ==
    burst' = [k \in Keys |->
                IF \/ burst[k] > 0
                   \/ \E c \in Callers : call[c].pc = "await" /\ call[c].key = k
                THEN 0 - 1 ELSE burst[k]]

\* One caller making single-token consume calls (and checks) on one key.
BurstNext ==
    \/ \E c \in OneCaller, k \in OneKey : check(c, k) /\ UNCHANGED observers
    \/ \E c \in OneCaller, k \in OneKey :
          consume(c, k, Scale) /\ UNCHANGED observers
    \/ \E c \in OneCaller : checkReturn(c) /\ UNCHANGED observers
    \/ \E c \in OneCaller :
          consumeReturn(c) /\ countBurst(c)
             /\ UNCHANGED <<emptied, lastCheck, retryAt, more>>
    \/ \E d \in Steps :
          tick(d) /\ endBursts /\ UNCHANGED <<emptied, lastCheck, retryAt, more>>
    \/ sweep /\ UNCHANGED observers

BurstSpec == Init /\ [][BurstNext]_vars

\* emptied[k]: set when a consume leaves k's bucket with no tokens: the time
\* of that call, the lastRefill it persisted and the entry's expiry instant;
\* cleared when the next consume of k begins.
noteEmptied(c) ==
    LET key == call[c].key
    IN  emptied' = [emptied EXCEPT ![key] =
                      IF /\ result'[c].allowed
                         /\ key \in DOMAIN store'
                         /\ store'[key].state.tokens = 0
                      THEN {[at |-> call[c].now,
                             lastRefill |-> store'[key].state.lastRefill,
                             expiresAt |-> store'[key].expiresAt]}
                      ELSE {}]

\* One caller making check and consume calls of any amount on one key.
RefillNext ==
    \/ \E c \in OneCaller, k \in OneKey : check(c, k) /\ UNCHANGED observers
    \/ \E c \in OneCaller, k \in OneKey, n \in Amounts :
          consume(c, k, n) /\ emptied' = [emptied EXCEPT ![k] = {}]
             /\ UNCHANGED <<burst, lastCheck, retryAt, more>>
    \/ \E c \in OneCaller : checkReturn(c) /\ UNCHANGED observers
    \/ \E c \in OneCaller :
          consumeReturn(c) /\ noteEmptied(c)
             /\ UNCHANGED <<burst, lastCheck, retryAt, more>>
    \/ \E d \in Steps : tick(d) /\ UNCHANGED observers
    \/ sweep /\ UNCHANGED observers

RefillSpec == Init /\ [][RefillNext]_vars

\* lastCheck[k]: the result of the last check of k made at the present
\* instant, and whether it was the first such check or a later one; cleared
\* when a consume of k begins and when time passes.
noteCheck(c) ==
    lastCheck' = [lastCheck EXCEPT ![call[c].key] =
                    IF call[c].now = clock
                    THEN {[result |-> result'[c],
                           count |-> IF @ = {} THEN 1 ELSE 2]}
                    ELSE {}]

\* One caller making check and consume calls of any amount on one key.
CheckNext ==
    \/ \E c \in OneCaller, k \in OneKey : check(c, k) /\ UNCHANGED observers
    \/ \E c \in OneCaller, k \in OneKey, n \in Amounts :
          consume(c, k, n) /\ lastCheck' = [lastCheck EXCEPT ![k] = {}]
             /\ UNCHANGED <<burst, emptied, retryAt, more>>
    \/ \E c \in OneCaller :
          checkReturn(c) /\ noteCheck(c) /\ UNCHANGED <<burst, emptied, retryAt, more>>
    \/ \E c \in OneCaller : consumeReturn(c) /\ UNCHANGED observers
    \/ \E d \in Steps :
          tick(d) /\ lastCheck' = [k \in Keys |-> {}]
             /\ UNCHANGED <<burst, emptied, retryAt, more>>
    \/ sweep /\ UNCHANGED observers

CheckSpec == Init /\ [][CheckNext]_vars

\* retryAt[k]: after a single-token consume of k is rejected at time t with
\* retryAfter = r, the instant t + r * 1000; cleared when a consume of k is
\* admitted.
noteRetry(c) ==
    retryAt' = [retryAt EXCEPT ![call[c].key] =
                  IF result'[c].allowed THEN {}
                  ELSE IF call[c].tokens = Scale
                       THEN {call[c].now + r * MsPerSecond :
                                r \in result'[c].retryAfter}
                       ELSE @]

\* One caller making check and consume calls of any amount on one key.
RetryNext ==
    \/ \E c \in OneCaller, k \in OneKey : check(c, k) /\ UNCHANGED observers
    \/ \E c \in OneCaller, k \in OneKey, n \in Amounts :
          consume(c, k, n) /\ UNCHANGED observers
    \/ \E c \in OneCaller : checkReturn(c) /\ UNCHANGED observers
    \/ \E c \in OneCaller :
          consumeReturn(c) /\ noteRetry(c) /\ UNCHANGED <<burst, emptied, lastCheck, more>>
    \/ \E d \in Steps : tick(d) /\ UNCHANGED observers
    \/ sweep /\ UNCHANGED observers

RetrySpec == Init /\ [][RetryNext]_vars

\* reset[k]: one result a call on k returned, chosen freely among those
\* returned since the last admitted consume of k: its resetAt and the time of
\* the call.
noteReset(c) ==
    LET key == call[c].key
        noted == [resetAt |-> result'[c].resetAt, at |-> call[c].now]
        admitted == call[c].op = "consume" /\ result'[c].allowed
    IN  \E keep \in BOOLEAN :
            reset' = [reset EXCEPT ![key] =
                        IF keep /\ ~admitted /\ @ # {} THEN @ ELSE {noted}]

\* One caller making check and consume calls of any amount on one key.
ResetNext ==
    \/ \E c \in OneCaller, k \in OneKey : check(c, k) /\ UNCHANGED observers
    \/ \E c \in OneCaller, k \in OneKey, n \in Amounts :
          consume(c, k, n) /\ UNCHANGED observers
    \/ \E c \in OneCaller :
          checkReturn(c) /\ noteReset(c)
             /\ UNCHANGED <<burst, emptied, lastCheck, retryAt, reference, fault, last, later>>
    \/ \E c \in OneCaller :
          consumeReturn(c) /\ noteReset(c)
             /\ UNCHANGED <<burst, emptied, lastCheck, retryAt, reference, fault, last, later>>
    \/ \E d \in Steps : tick(d) /\ UNCHANGED observers
    \/ sweep /\ UNCHANGED observers

ResetSpec == Init /\ [][ResetNext]_vars

\* reference[k]: two real-time buckets of k that add refillRate tokens, up to
\* capacity, at every refillInterval tick counted from their creation, and
\* give up the amount of each consume the engine admits.  `first` is created
\* full at the first access of k and is followed up to the first call at
\* which its count differs from the engine's; `stored` is created full at
\* every access that finds no live entry of k in the store, and its count is
\* capped at capacity when a call samples it.  `sampled` is the count at the
\* last call.
ticksBetween(created, from, to) ==
    (to - created) \div refillInterval - (from - created) \div refillInterval

bucketAfter(b, from, to) ==
    IF b.followed /\ ticksBetween(b.created, from, to) > 0
    THEN [b EXCEPT !.tokens =
            Min(capacity, @ + ticksBetween(b.created, from, to) * refillRate)]
    ELSE b

bucketCreated(now) ==
    [created |-> now, tokens |-> capacity, sampled |-> capacity, followed |-> TRUE]

\* Whether the engine admits the consume that caller c has just begun.
admitted(c) ==
    /\ call'[c].op = "consume"
    /\ RefilledTokens(call'[c].state, call'[c].now) >= call'[c].tokens

bucketSampled(b, c, count) ==
    [b EXCEPT !.sampled = count,
              !.tokens = IF admitted(c) THEN count - call'[c].tokens ELSE @]

\* The `first` bucket sampled: it is left as it is, at the count it last
\* had, from the first call whose count it does not match.
firstSampled(b, c) ==
    IF ~b.followed THEN b
    ELSE IF b.tokens = RefilledTokens(call'[c].state, call'[c].now)
         THEN bucketSampled(b, c, b.tokens)
         ELSE [created |-> 0, tokens |-> 0, sampled |-> b.tokens, followed |-> FALSE]

sampleReference(c, key) ==
    LET live == Readable(store, key, clock) # {}
        old == IF reference[key] = {}
               THEN [first |-> bucketCreated(clock), stored |-> bucketCreated(clock)]
               ELSE CHOOSE r \in reference[key] : TRUE
        stored == IF live THEN old.stored ELSE bucketCreated(clock)
    IN  reference' = [reference EXCEPT ![key] =
            {[first |-> firstSampled(old.first, c),
              stored |-> bucketSampled(stored, c, Min(capacity, stored.tokens))]}]

tickReference(d) ==
    reference' = [k \in Keys |->
        {[first |-> bucketAfter(r.first, clock, clock + d),
          stored |-> bucketAfter(r.stored, clock, clock + d)] : r \in reference[k]}]

\* Whole amounts and a negative one, for the specification that follows the
\* reference buckets.
ReferenceAmounts == {0 - Scale, Scale, 2 * Scale}

\* One caller making check and consume calls on one key.
ReferenceNext ==
    \/ \E c \in OneCaller, k \in OneKey :
          check(c, k) /\ sampleReference(c, k)
             /\ UNCHANGED <<burst, emptied, lastCheck, retryAt, reset, fault, last, later>>
    \/ \E c \in OneCaller, k \in OneKey, n \in ReferenceAmounts :
          consume(c, k, n) /\ sampleReference(c, k)
             /\ UNCHANGED <<burst, emptied, lastCheck, retryAt, reset, fault, last, later>>
    \/ \E c \in OneCaller : checkReturn(c) /\ UNCHANGED observers
    \/ \E c \in OneCaller : consumeReturn(c) /\ UNCHANGED observers
    \/ \E d \in Steps :
          tick(d) /\ tickReference(d)
             /\ UNCHANGED <<burst, emptied, lastCheck, retryAt, reset, fault, last, later>>
    \/ sweep /\ UNCHANGED observers

ReferenceSpec == Init /\ [][ReferenceNext]_vars

\* Options a caller may pass to the constructors that are not all positive,
\* and one that is.  The constructors store what they are given.  (A zero
\* refillRate or refillInterval makes the TTL or the elapsed intervals
\* Infinity or NaN, which the integers here do not carry; they are left out.)
AnyOptions ==
    { [capacity |-> 1,     refillRate |-> Scale,     refillInterval |-> 1000],
      [capacity |-> 0,     refillRate |-> Scale,     refillInterval |-> 1000],
      [capacity |-> 0 - 1, refillRate |-> Scale,     refillInterval |-> 1000],
      [capacity |-> 1,     refillRate |-> 0 - Scale, refillInterval |-> 1000],
      [capacity |-> 1,     refillRate |-> Scale,     refillInterval |-> 0 - 1000] }

ConfigInit == InitWith(AnyOptions)

\* One caller making check and consume calls on one key of a limiter
\* constructed with any options.
ConfigNext ==
    \/ \E c \in OneCaller, k \in OneKey : check(c, k) /\ UNCHANGED observers
    \/ \E c \in OneCaller, k \in OneKey, n \in WholeAmounts :
          consume(c, k, n) /\ UNCHANGED observers
    \/ \E c \in OneCaller : checkReturn(c) /\ UNCHANGED observers
    \/ \E c \in OneCaller : consumeReturn(c) /\ UNCHANGED observers
    \/ \E d \in Steps : tick(d) /\ UNCHANGED observers
    \/ sweep /\ UNCHANGED observers

ConfigSpec == ConfigInit /\ [][ConfigNext]_vars

\* fault[c] of a call that meets no failure: the get and set attempts it makes.
countGet(c) ==
    fault' = [fault EXCEPT ![c] =
                [injected |-> {}, thrown |-> {}, gets |-> 1, sets |-> 0]]

countSet(c) ==
    fault' = [fault EXCEPT ![c].sets = IF result'[c].allowed THEN @ + 1 ELSE @]

\* One caller making check and consume calls on one key of a limiter whose
\* storage adapter may reject any get and any set.
FaultNext ==
    \/ \E c \in OneCaller, k \in OneKey :
          check(c, k) /\ countGet(c)
             /\ UNCHANGED <<burst, emptied, lastCheck, retryAt, reset, reference, last, later>>
    \/ \E c \in OneCaller, k \in OneKey, n \in WholeAmounts :
          consume(c, k, n) /\ countGet(c)
             /\ UNCHANGED <<burst, emptied, lastCheck, retryAt, reset, reference, last, later>>
    \/ \E c \in OneCaller, k \in OneKey, e \in Errors :
          getFails(c, "check", k, 0, e)
             /\ UNCHANGED <<burst, emptied, lastCheck, retryAt, reset, reference, last, later>>
    \/ \E c \in OneCaller, k \in OneKey, n \in WholeAmounts, e \in Errors :
          getFails(c, "consume", k, n, e)
             /\ UNCHANGED <<burst, emptied, lastCheck, retryAt, reset, reference, last, later>>
    \/ \E c \in OneCaller : checkReturn(c) /\ UNCHANGED observers
    \/ \E c \in OneCaller :
          consumeReturn(c) /\ countSet(c)
             /\ UNCHANGED <<burst, emptied, lastCheck, retryAt, reset, reference, last, later>>
    \/ \E c \in OneCaller, e \in Errors :
          setFails(c, e)
             /\ UNCHANGED <<burst, emptied, lastCheck, retryAt, reset, reference, last, later>>
    \/ \E d \in Steps : tick(d) /\ UNCHANGED observers
    \/ sweep /\ UNCHANGED observers

FaultSpec == KeysInit /\ [][FaultNext]_vars

\* Two callers making single-token consume calls on one key, their calls
\* interleaved at the awaits.
ConcurrentNext ==
    \/ \E c \in Callers, k \in OneKey :
          consume(c, k, Scale) /\ UNCHANGED observers
    \/ \E c \in Callers : consumeReturn(c) /\ UNCHANGED observers
    \/ \E d \in Steps : tick(d) /\ UNCHANGED observers
    \/ sweep /\ UNCHANGED observers

ConcurrentSpec == KeysInit /\ [][ConcurrentNext]_vars

\* Bucket states and TTLs a caller passes to MemoryStorage.set directly.
StoredStates ==
    { [tokens |-> 5 * Scale, lastRefill |-> 0],
      [tokens |-> 3 * Scale, lastRefill |-> 1000] }

Ttls == {0, 1000, 2500}

\* last, after an operation on key with the table going from `before` to
\* `after`.
noted(op, key, state, ttl, returned, before, after) ==
    [op |-> op, key |-> key, state |-> state, ttlMs |-> ttl, at |-> clock,
     returned |-> returned,
     found |-> IF key \in DOMAIN before THEN {before[key]} ELSE {},
     sizeBefore |-> size(before), size |-> size(after)]

\* storage.get(key), storage.set(key, state, ttlMs) and storage.delete(key)
\* called on the store directly.
storageGet(key) ==
    /\ store' = getStore(store, key, clock)
    /\ last' = noted("get", key, NoState, 0, get(store, key, clock), store, store')
    /\ UNCHANGED <<config, clock, cleanupTimer, call, result>>

storageSet(key, state, ttl) ==
    /\ store' = set(store, key, state, ttl, clock)
    /\ last' = noted("set", key, state, ttl, {}, store, store')
    /\ UNCHANGED <<config, clock, cleanupTimer, call, result>>

storageDelete(key) ==
    /\ deleteKey(key)
    /\ last' = noted("delete", key, NoState, 0, {}, store, store')

storageSweep ==
    /\ sweep
    /\ last' = noted("sweep", "none", NoState, 0, {}, store, store')

storageDestroy ==
    /\ destroy
    /\ last' = noted("destroy", "none", NoState, 0, {}, store, store')

storageTick(d) ==
    /\ tick(d)
    /\ last' = [NoOperation EXCEPT !.op = "tick", !.at = clock']

StoreInit ==
    InitWith({[capacity |-> 1, refillRate |-> Scale, refillInterval |-> 1000]})

\* A caller using a MemoryStorage directly on two keys while time passes and
\* the sweep runs.
StoreNext ==
    \/ \E k \in Keys :
          storageGet(k) /\ UNCHANGED <<burst, emptied, lastCheck, retryAt, reset, reference, fault, later>>
    \/ \E k \in Keys, st \in StoredStates, ttl \in Ttls :
          storageSet(k, st, ttl)
             /\ UNCHANGED <<burst, emptied, lastCheck, retryAt, reset, reference, fault, later>>
    \/ \E k \in Keys :
          storageDelete(k)
             /\ UNCHANGED <<burst, emptied, lastCheck, retryAt, reset, reference, fault, later>>
    \/ storageSweep /\ UNCHANGED <<burst, emptied, lastCheck, retryAt, reset, reference, fault, later>>
    \/ storageDestroy /\ UNCHANGED <<burst, emptied, lastCheck, retryAt, reset, reference, fault, later>>
    \/ \E d \in Steps :
          storageTick(d)
             /\ UNCHANGED <<burst, emptied, lastCheck, retryAt, reset, reference, fault, later>>

StoreSpec == StoreInit /\ [][StoreNext]_vars

\* A destroy() that destroys whatever store the limiter uses.
limiterDestroyAny ==
    /\ destroy
    /\ last' = noted("limiter.destroy", "none", NoState, 0, {}, store, store')

\* RateLimiter.destroy: only a store the limiter created is destroyed.
limiterDestroy ==
    /\ IF ownsStorage THEN destroy
       ELSE UNCHANGED <<config, program>>
    /\ last' = noted("limiter.destroy", "none", NoState, 0, {}, store, store')

\* The caller that supplied the store destroys it itself.
callerDestroy ==
    /\ ~ownsStorage
    /\ destroy
    /\ last' = noted("destroy", "none", NoState, 0, {}, store, store')

called(op) == last' = [NoOperation EXCEPT !.op = op, !.at = clock']

FacadeInit == Constructed(SmallOptions, BOOLEAN)

\* One caller using a limiter that owns its store or was given one: calls on
\* one key while time passes and the store's sweep runs, and destroy().
FacadeNext ==
    \/ \E c \in OneCaller, k \in OneKey :
          check(c, k) /\ called("check")
             /\ UNCHANGED <<burst, emptied, lastCheck, retryAt, reset, reference, fault, later>>
    \/ \E c \in OneCaller, k \in OneKey :
          consume(c, k, Scale) /\ called("consume")
             /\ UNCHANGED <<burst, emptied, lastCheck, retryAt, reset, reference, fault, later>>
    \/ \E c \in OneCaller :
          checkReturn(c) /\ called("check")
             /\ UNCHANGED <<burst, emptied, lastCheck, retryAt, reset, reference, fault, later>>
    \/ \E c \in OneCaller :
          consumeReturn(c) /\ called("consume")
             /\ UNCHANGED <<burst, emptied, lastCheck, retryAt, reset, reference, fault, later>>
    \/ limiterDestroy
          /\ UNCHANGED <<burst, emptied, lastCheck, retryAt, reset, reference, fault, later>>
    \/ callerDestroy
          /\ UNCHANGED <<burst, emptied, lastCheck, retryAt, reset, reference, fault, later>>
    \/ storageSweep /\ UNCHANGED <<burst, emptied, lastCheck, retryAt, reset, reference, fault, later>>
    \/ \E d \in Steps :
          storageTick(d)
             /\ UNCHANGED <<burst, emptied, lastCheck, retryAt, reset, reference, fault, later>>

FacadeSpec == FacadeInit /\ [][FacadeNext]_vars

\* The calls the middleware makes to leave: next(), next(error), and the
\* default onRateLimited, which answers with status 429.
CallNext == [fn |-> "next", error |-> {}, status |-> 0]

CallNextError(e) == [fn |-> "next", error |-> {e}, status |-> 0]

CallOnRateLimited == [fn |-> "onRateLimited", error |-> {}, status |-> 429]

\* The middleware is called with a request for which skip(req) is true.
middlewareSkip(c, key) ==
    /\ request[c].pc # "consuming"
    /\ request' = [request EXCEPT ![c] =
                     [pc |-> "done", skip |-> TRUE, key |-> key, consumes |-> 0,
                      exits |-> <<CallNext>>]]
    /\ UNCHANGED <<config, program, fault>>

\* The middleware is called with a request that is not skipped: it calls
\* limiter.consume(keyGenerator(req)) and awaits the result.
middlewareConsume(c, key) ==
    /\ request[c].pc # "consuming"
    /\ consume(c, key, Scale)
    /\ countGet(c)
    /\ request' = [request EXCEPT ![c] =
                     [pc |-> "consuming", skip |-> FALSE, key |-> key,
                      consumes |-> 1, exits |-> <<>>]]

\* limiter.consume rejects because storage.get did: the catch calls next(error).
middlewareGetFails(c, key, e) ==
    /\ request[c].pc # "consuming"
    /\ getFails(c, "consume", key, Scale, e)
    /\ request' = [request EXCEPT ![c] =
                     [pc |-> "done", skip |-> FALSE, key |-> key, consumes |-> 1,
                      exits |-> <<CallNextError(e)>>]]

\* A middleware that lets every request through once consume has returned.
middlewareReturnOpen(c) ==
    /\ request[c].pc = "consuming"
    /\ consumeReturn(c)
    /\ countSet(c)
    /\ request' = [request EXCEPT ![c].pc = "done",
                                  ![c].exits = Append(@, CallNext)]

\* limiter.consume resolves: next() when allowed, onRateLimited otherwise.
middlewareReturn(c) ==
    /\ request[c].pc = "consuming"
    /\ consumeReturn(c)
    /\ countSet(c)
    /\ request' = [request EXCEPT ![c].pc = "done",
                                  ![c].exits =
                                     Append(@, IF result'[c].allowed THEN CallNext
                                               ELSE CallOnRateLimited)]

\* limiter.consume rejects because storage.set did: the catch calls next(error).
middlewareSetFails(c, e) ==
    /\ request[c].pc = "consuming"
    /\ setFails(c, e)
    /\ request' = [request EXCEPT ![c].pc = "done",
                                  ![c].exits = Append(@, CallNextError(e))]

\* createRateLimitMiddleware({capacity: 1, refillRate: 1, refillInterval: 1000}).
MiddlewareInit ==
    InitWith({[capacity |-> 1, refillRate |-> Scale, refillInterval |-> 1000]})

\* One Express middleware serving requests of two clients one at a time, over
\* a store that may reject any get and any set.
MiddlewareNext ==
    \/ \E c \in OneCaller, k \in Keys :
          middlewareSkip(c, k)
             /\ UNCHANGED <<burst, emptied, lastCheck, retryAt, reset, reference, last, written, lineage, shadow, admittedSince, pending>>
    \/ \E c \in OneCaller, k \in Keys :
          middlewareConsume(c, k)
             /\ UNCHANGED <<burst, emptied, lastCheck, retryAt, reset, reference, last, written, lineage, shadow, admittedSince, pending>>
    \/ \E c \in OneCaller, k \in Keys, e \in Errors :
          middlewareGetFails(c, k, e)
             /\ UNCHANGED <<burst, emptied, lastCheck, retryAt, reset, reference, last, written, lineage, shadow, admittedSince, pending>>
    \/ \E c \in OneCaller :
          middlewareReturn(c)
             /\ UNCHANGED <<burst, emptied, lastCheck, retryAt, reset, reference, last, written, lineage, shadow, admittedSince, pending>>
    \/ \E c \in OneCaller, e \in Errors :
          middlewareSetFails(c, e)
             /\ UNCHANGED <<burst, emptied, lastCheck, retryAt, reset, reference, last, written, lineage, shadow, admittedSince, pending>>
    \/ \E d \in Steps : tick(d) /\ UNCHANGED observers
    \/ sweep /\ UNCHANGED observers

MiddlewareSpec == MiddlewareInit /\ [][MiddlewareNext]_vars

\* written, after a consume has returned: the call time, the tokens the call
\* found and the amount it asked for, the entry it left in the table and the
\* number of sets it made; empty after a rejected consume.
noteWritten(c) ==
    LET key == call[c].key
    IN  written' = [written EXCEPT ![key] =
                      IF result'[c].allowed /\ key \in DOMAIN store'
                      THEN {[at |-> call[c].now,
                             setAt |-> clock,
                             found |-> call[c].state,
                             amount |-> call[c].tokens,
                             entry |-> store'[key],
                             sets |-> fault'[c].sets]}
                      ELSE {}]

\* One caller making check and consume calls of any amount on one key, with
\* the store's gets and sets counted.
WriteNext ==
    \/ \E c \in OneCaller, k \in OneKey :
          check(c, k) /\ countGet(c)
             /\ UNCHANGED <<burst, emptied, lastCheck, retryAt, reset, reference, last, request, written, lineage, shadow, admittedSince, pending>>
    \/ \E c \in OneCaller, k \in OneKey, n \in Amounts :
          consume(c, k, n) /\ countGet(c)
             /\ UNCHANGED <<burst, emptied, lastCheck, retryAt, reset, reference, last, request, written, lineage, shadow, admittedSince, pending>>
    \/ \E c \in OneCaller : checkReturn(c) /\ UNCHANGED observers
    \/ \E c \in OneCaller :
          consumeReturn(c) /\ countSet(c) /\ noteWritten(c)
             /\ UNCHANGED <<burst, emptied, lastCheck, retryAt, reset, reference, last, request, lineage, shadow, admittedSince, pending>>
    \/ \E d \in Steps : tick(d) /\ UNCHANGED observers
    \/ sweep /\ UNCHANGED observers

WriteSpec == Init /\ [][WriteNext]_vars

\* lineage of a key: empty while the key has no bucket; a call that finds no
\* readable entry, and a delete, end the bucket; the first admitted consume
\* after that creates the next one.
endLineage(key) ==
    lineage' = [lineage EXCEPT ![key] =
                  IF Readable(store, key, clock) = {} THEN {} ELSE @]

dropLineage(key) == lineage' = [lineage EXCEPT ![key] = {}]

noteLineage(c) ==
    LET key == call[c].key
    IN  lineage' = [lineage EXCEPT ![key] =
                      IF ~result'[c].allowed THEN @
                      ELSE IF @ = {}
                           THEN {[created |-> store'[key].state.lastRefill,
                                  previous |-> store'[key].state.lastRefill]}
                           ELSE {[g EXCEPT !.previous = store'[key].state.lastRefill] :
                                    g \in @}]

\* One caller making check and consume calls of any amount on one key, one
\* call at a time, while time passes, the sweep runs and the key is deleted.
LineageNext ==
    \/ \E c \in OneCaller, k \in OneKey :
          check(c, k) /\ endLineage(k)
             /\ UNCHANGED <<burst, emptied, lastCheck, retryAt, reset, reference, fault, last, request, written, shadow, admittedSince, pending>>
    \/ \E c \in OneCaller, k \in OneKey, n \in Amounts :
          consume(c, k, n) /\ endLineage(k)
             /\ UNCHANGED <<burst, emptied, lastCheck, retryAt, reset, reference, fault, last, request, written, shadow, admittedSince, pending>>
    \/ \E c \in OneCaller : checkReturn(c) /\ UNCHANGED observers
    \/ \E c \in OneCaller :
          consumeReturn(c) /\ noteLineage(c)
             /\ UNCHANGED <<burst, emptied, lastCheck, retryAt, reset, reference, fault, last, request, written, shadow, admittedSince, pending>>
    \/ \E d \in Steps : tick(d) /\ UNCHANGED observers
    \/ sweep /\ UNCHANGED observers
    \/ \E k \in OneKey :
          deleteKey(k) /\ dropLineage(k)
             /\ UNCHANGED <<burst, emptied, lastCheck, retryAt, reset, reference, fault, last, request, written, shadow, admittedSince, pending>>

LineageSpec == Init /\ [][LineageNext]_vars

\* shadow follows the gets, sets and deletes made on the store, those of the
\* engine included, and takes no part in a sweep.
mirrorGet(key) == shadow' = getStore(shadow, key, clock)

mirrorSet(key, state, ttl) == shadow' = set(shadow, key, state, ttl, clock)

mirrorDelete(key) == shadow' = delete(shadow, key)

mirrorConsume(c) ==
    shadow' = IF result'[c].allowed
              THEN set(shadow, call[c].key, store'[call[c].key].state, ttlMs, clock)
              ELSE shadow

\* The bucket state and the TTLs of the sets made on the store directly.
ShadowStates == {[tokens |-> 5 * Scale, lastRefill |-> 0]}

ShadowTtls == {0, 1000}

\* A caller using the store directly on two keys and through consume on one
\* of them, while time passes and the sweep runs at any point.
ShadowNext ==
    \/ \E k \in Keys :
          getKey(k) /\ mirrorGet(k) /\ called("get")
             /\ UNCHANGED <<burst, emptied, lastCheck, retryAt, reset, reference, fault, request, written, lineage, admittedSince, pending>>
    \/ \E k \in Keys, st \in ShadowStates, ttl \in ShadowTtls :
          setKey(k, st, ttl) /\ mirrorSet(k, st, ttl) /\ called("set")
             /\ UNCHANGED <<burst, emptied, lastCheck, retryAt, reset, reference, fault, request, written, lineage, admittedSince, pending>>
    \/ \E k \in Keys :
          deleteKey(k) /\ mirrorDelete(k) /\ called("delete")
             /\ UNCHANGED <<burst, emptied, lastCheck, retryAt, reset, reference, fault, request, written, lineage, admittedSince, pending>>
    \/ \E c \in OneCaller, k \in OneKey :
          consume(c, k, Scale) /\ mirrorGet(k) /\ called("consume")
             /\ UNCHANGED <<burst, emptied, lastCheck, retryAt, reset, reference, fault, request, written, lineage, admittedSince, pending>>
    \/ \E c \in OneCaller :
          consumeReturn(c) /\ mirrorConsume(c) /\ called("consume")
             /\ UNCHANGED <<burst, emptied, lastCheck, retryAt, reset, reference, fault, request, written, lineage, admittedSince, pending>>
    \/ sweep /\ called("sweep")
          /\ UNCHANGED <<burst, emptied, lastCheck, retryAt, reset, reference, fault, later>>
    \/ \E d \in Steps :
          tick(d) /\ called("tick")
             /\ UNCHANGED <<burst, emptied, lastCheck, retryAt, reset, reference, fault, later>>

ShadowSpec == StoreInit /\ [][ShadowNext]_vars

\* The setInterval callback fires on the store: a sweep, noted with the table
\* size before and after it.
timerFires ==
    /\ storageSweep
    /\ UNCHANGED <<burst, emptied, lastCheck, retryAt, reset, reference, fault, later>>

\* A caller using a MemoryStorage directly on two keys while time passes; the
\* sweep runs and the store may be destroyed.
ExpiryNext ==
    \/ \E k \in Keys :
          getKey(k) /\ called("get")
             /\ UNCHANGED <<burst, emptied, lastCheck, retryAt, reset, reference, fault, later>>
    \/ \E k \in Keys, st \in ShadowStates, ttl \in Ttls :
          setKey(k, st, ttl) /\ called("set")
             /\ UNCHANGED <<burst, emptied, lastCheck, retryAt, reset, reference, fault, later>>
    \/ \E k \in Keys :
          deleteKey(k) /\ called("delete")
             /\ UNCHANGED <<burst, emptied, lastCheck, retryAt, reset, reference, fault, later>>
    \/ timerFires
    \/ destroy /\ called("destroy")
          /\ UNCHANGED <<burst, emptied, lastCheck, retryAt, reset, reference, fault, later>>
    \/ \E d \in Steps :
          tick(d) /\ called("tick")
             /\ UNCHANGED <<burst, emptied, lastCheck, retryAt, reset, reference, fault, later>>

\* setInterval keeps calling cleanup every cleanupIntervalMs until
\* clearInterval: while the timer is set, a sweep that has something to do is
\* not put off forever.
ExpiryFairness == WF_vars(timerFires)

ExpirySpec == StoreInit /\ [][ExpiryNext]_vars /\ ExpiryFairness

\* admittedSince, after a consume has returned: the time of the first consume
\* of the key, the time of this one, and the tokens admitted from the first
\* to this one.
noteAdmitted(c) ==
    LET key == call[c].key
        n == IF result'[c].allowed THEN call[c].tokens ELSE 0
    IN  admittedSince' = [admittedSince EXCEPT ![key] =
                            IF @ = {}
                            THEN {[first |-> call[c].now, latest |-> call[c].now,
                                   total |-> n]}
                            ELSE {[a EXCEPT !.latest = call[c].now,
                                            !.total = @ + n] : a \in @}]

\* One caller making check and consume calls of positive amounts on one key,
\* one call at a time, while time passes, entries expire and the sweep runs.
RateNext ==
    \/ \E c \in OneCaller, k \in OneKey : check(c, k) /\ UNCHANGED observers
    \/ \E c \in OneCaller, k \in OneKey, n \in PositiveAmounts :
          consume(c, k, n) /\ UNCHANGED observers
    \/ \E c \in OneCaller : checkReturn(c) /\ UNCHANGED observers
    \/ \E c \in OneCaller :
          consumeReturn(c) /\ noteAdmitted(c)
             /\ UNCHANGED <<burst, emptied, lastCheck, retryAt, reset, reference, fault, last, request, written, lineage, shadow, pending>>
    \/ \E d \in Steps : tick(d) /\ UNCHANGED observers
    \/ sweep /\ UNCHANGED observers

RateSpec == Init /\ [][RateNext]_vars

\* Whole amounts a caller keeps asking for: from one token to more than any
\* capacity of Options.
RetryAmounts == {Scale, 2 * Scale, 3 * Scale, 4 * Scale}

\* The time a bucket needs from empty to full.  The clock being bounded, a
\* caller starts to retry, and the consumes before it are made, only while
\* this much time is left.
FullRefillTime == CeilDiv(capacity, refillRate) * refillInterval

TimeToRefill == clock + FullRefillTime <= Horizon

Retrying(c) == pending[c] # {} /\ \A r \in pending[c] : ~r.admitted

\* A consume made before the caller starts to retry.
earlierConsume(c, key, n) ==
    /\ pending[c] = {}
    /\ TimeToRefill
    /\ consume(c, key, n)
    /\ UNCHANGED pending

\* The caller decides to get n tokens of the key and to retry until admitted.
startRetry(c, key, n) ==
    /\ pending[c] = {}
    /\ TimeToRefill
    /\ call[c].pc # "await"
    /\ pending' = [pending EXCEPT ![c] =
                     {[key |-> key, n |-> n,
                       rejected |-> FALSE, admitted |-> FALSE]}]
    /\ UNCHANGED <<config, program>>

\* The caller calls consume(key, n) for its pending request.
retry(c) ==
    /\ Retrying(c)
    /\ \E r \in pending[c] : consume(c, r.key, r.n)
    /\ UNCHANGED pending

\* A consume returns; the pending request notes whether it was admitted.
retryReturn(c) ==
    /\ consumeReturn(c)
    /\ pending' = [pending EXCEPT ![c] =
                     {[r EXCEPT !.admitted = result'[c].allowed,
                                !.rejected = @ \/ ~result'[c].allowed] : r \in @}]

timePasses == \E d \in Steps : tick(d) /\ UNCHANGED observers

\* One caller consuming whole amounts from one key, then asking for n tokens
\* and retrying, with no other consume on the key, while time passes, entries
\* expire and the sweep runs.
RetryLoopNext ==
    \/ \E c \in OneCaller, k \in OneKey, n \in WholeAmounts :
          earlierConsume(c, k, n)
             /\ UNCHANGED <<burst, emptied, lastCheck, retryAt, reset, reference, fault, last, request, written, lineage, shadow, admittedSince>>
    \/ \E c \in OneCaller, k \in OneKey, n \in RetryAmounts :
          startRetry(c, k, n)
             /\ UNCHANGED <<burst, emptied, lastCheck, retryAt, reset, reference, fault, last, request, written, lineage, shadow, admittedSince>>
    \/ \E c \in OneCaller :
          retry(c)
             /\ UNCHANGED <<burst, emptied, lastCheck, retryAt, reset, reference, fault, last, request, written, lineage, shadow, admittedSince>>
    \/ \E c \in OneCaller :
          retryReturn(c)
             /\ UNCHANGED <<burst, emptied, lastCheck, retryAt, reset, reference, fault, last, request, written, lineage, shadow, admittedSince>>
    \/ timePasses
    \/ sweep /\ UNCHANGED observers

\* Time advances, the caller keeps retrying, and the event loop resumes a
\* consume that awaits the store.
RetryLoopFairness ==
    /\ WF_vars(timePasses)
    /\ \A c \in OneCaller :
          /\ WF_vars(retry(c)
                       /\ UNCHANGED <<burst, emptied, lastCheck, retryAt, reset, reference, fault, last, request, written, lineage, shadow, admittedSince>>)
          /\ WF_vars(retryReturn(c)
                       /\ UNCHANGED <<burst, emptied, lastCheck, retryAt, reset, reference, fault, last, request, written, lineage, shadow, admittedSince>>)

RetryLoopSpec == Init /\ [][RetryLoopNext]_vars /\ RetryLoopFairness

\* ----------------------------------------------------------------- claims

\* A call that has returned, with its arguments, the state it loaded and, in
\* result[c], what it returned.
Returned(c) == call[c].pc = "done"

Consumed(c) == Returned(c) /\ call[c].op = "consume"

Checked(c) == Returned(c) /\ call[c].op = "check"

\* C2: consume(key, n) is admitted if and only if the refilled token count
\* tokens(now) is at least n; an admitted call reports
\* remaining = floor(tokens(now) - n), a rejected call floor(tokens(now)).
ConsumeDecision ==
    \A c \in Callers :
        Consumed(c) =>
            LET T == RefilledTokens(call[c].state, call[c].now)
                n == call[c].tokens
            IN  /\ result[c].allowed <=> T >= n
                /\ result[c].allowed => result[c].remaining = (T - n) \div Scale
                /\ ~result[c].allowed => result[c].remaining = T \div Scale

\* A consume of two tokens rejected by a bucket that still holds one, which
\* it reports.
ConsumeDecisionWitness ==
    \E c \in Callers :
        /\ Consumed(c)
        /\ call[c].tokens = 2 * Scale
        /\ ~result[c].allowed
        /\ result[c].remaining = 1
        /\ call[c].key \in DOMAIN store

\* C4: every result of check or consume has an integer remaining with
\* 0 <= remaining <= capacity.
RemainingInRange ==
    \A c \in Callers :
        Returned(c) =>
            /\ result[c].remaining \in Int
            /\ 0 <= result[c].remaining
            /\ result[c].remaining * Scale <= capacity

\* C5: every BucketState consume writes to the store has
\* 0 <= tokens <= capacity.
StoredTokensInRange ==
    \A k \in DOMAIN store :
        /\ 0 <= store[k].state.tokens
        /\ store[k].state.tokens <= capacity

\* C9: retryAfter is present if and only if allowed is false, and when
\* present it is an integer number of seconds greater than 0.
RetryAfterIffRejected ==
    \A c \in Callers :
        Returned(c) =>
            /\ result[c].retryAfter # {} <=> ~result[c].allowed
            /\ \A seconds \in result[c].retryAfter :
                  seconds \in Int /\ seconds > 0

\* A rejection that asks for two seconds, and so was rounded up from more
\* than one second of milliseconds.
RetryAfterWitness ==
    \E c \in Callers :
        /\ Returned(c)
        /\ ~result[c].allowed
        /\ result[c].retryAfter = {2}
        /\ clock > call[c].now

\* A step of caller c's call: its first half (to "await") or its return.
CallStep(c) == call'[c] # call[c]

\* A step of a consume call that is rejected: the refilled count of the state
\* it loaded is below the amount asked for.
RejectedConsumeStep(c) ==
    /\ CallStep(c)
    /\ call'[c].op = "consume"
    /\ RefilledTokens(call'[c].state, call'[c].now) < call'[c].tokens

\* C7 as stated: over a rejected consume the table is exactly what it was
\* before the call, for the key and for every other key.
RejectedConsumeLeavesTable ==
    [][\A c \in Callers : RejectedConsumeStep(c) => store' = store]_vars

\* C7, amended: a rejected consume makes no set call and changes no entry;
\* the one change it can make to the table is that its read removes the
\* key's own entry when that entry has already expired.
RejectedConsumePersistsNothing ==
    [][\A c \in Callers :
          RejectedConsumeStep(c) =>
              /\ DOMAIN store' \subseteq DOMAIN store
              /\ \A k \in DOMAIN store' : store'[k] = store[k]
              /\ \A k \in DOMAIN store \ DOMAIN store' :
                    k = call'[c].key /\ store[k].expiresAt <= clock
              /\ call'[c].pc = "done" => store' = store]_vars

\* A consume rejected while both keys have entries, the key's own holding
\* less than the amount asked for.
RejectedConsumeWitness ==
    \E c \in Callers :
        /\ Consumed(c)
        /\ ~result[c].allowed
        /\ DOMAIN store = Keys
        /\ store[call[c].key].state = call[c].state
        /\ call[c].now > call[c].state.lastRefill

\* C8: buckets are accounted per key: no step of a check or consume on one
\* key changes the entry of another key, and the state a call computes from
\* is its own key's readable entry, or a full bucket when there is none.
KeysIndependent ==
    [][\A c \in Callers :
          CallStep(c) =>
              /\ \A k \in Keys \ {call'[c].key} :
                    /\ k \in DOMAIN store' <=> k \in DOMAIN store
                    /\ k \in DOMAIN store => store'[k] = store[k]
              /\ call'[c].pc = "await" =>
                    LET key == call'[c].key
                    IN  IF key \in DOMAIN store /\ store[key].expiresAt > clock
                        THEN call'[c].state = store[key].state
                        ELSE call'[c].state =
                                [tokens |-> capacity, lastRefill |-> clock]]_vars

\* Key a is exhausted and a consume on key b, first seen at the same instant,
\* is admitted from a full bucket.
KeysIndependentWitness ==
    \E c \in Callers :
        /\ Consumed(c)
        /\ call[c].key = "b"
        /\ result[c].allowed
        /\ result[c].remaining * Scale = capacity - Scale
        /\ "a" \in DOMAIN store
        /\ store["a"].state.tokens = 0
        /\ store["a"].state.lastRefill = call[c].now
        /\ store["b"].state.tokens = capacity - Scale

\* C1: from a never-seen key and with no time passing, the i-th single-token
\* consume is admitted with remaining = capacity - i for i = 1..capacity, and
\* every later one is rejected with remaining = 0.
BurstAdmitsCapacity ==
    \A c \in Callers :
        (Consumed(c) /\ call[c].tokens = Scale /\ burst[call[c].key] >= 1) =>
            LET i == burst[call[c].key]
                tokenCapacity == capacity \div Scale
            IN  IF i <= tokenCapacity
                THEN result[c].allowed /\ result[c].remaining = tokenCapacity - i
                ELSE ~result[c].allowed /\ result[c].remaining = 0

\* The call after the last admitted one of a burst on a bucket of three
\* tokens: the fourth, rejected.
BurstWitness ==
    \E c \in Callers :
        /\ Consumed(c)
        /\ capacity = 3 * Scale
        /\ burst[call[c].key] = 4
        /\ ~result[c].allowed

\* The remaining a check reports for a bucket that held no tokens at the
\* instant `from` and has gained whole intervals of refill since.
RefilledSince(from, now) ==
    LET gained == ((now - from) \div refillInterval) * refillRate
    IN  (IF gained > capacity THEN capacity ELSE gained) \div Scale

\* C3 as stated: after a bucket was emptied at time t, a check at t + d with
\* no consume in between reports min(capacity, floor(d / refillInterval) *
\* refillRate) (floored to whole tokens).  It is stated here for the checks
\* that find the emptied entry still in the store, where the TTL plays no part.
RefillCountedFromEmptying ==
    \A c \in Callers :
        Checked(c) =>
            \A e \in emptied[call[c].key] :
                (call[c].now >= e.at /\ call[c].now < e.expiresAt) =>
                    result[c].remaining = RefilledSince(e.at, call[c].now)

\* C3, amended: the whole intervals are counted from the lastRefill the
\* emptying consume persisted (the last refill instant of the bucket's own
\* schedule at or before t), not from t; and once the entry has expired the
\* check reports a full bucket.
RefillCountedFromLastRefill ==
    \A c \in Callers :
        Checked(c) =>
            \A e \in emptied[call[c].key] :
                call[c].now >= e.at =>
                    IF call[c].now < e.expiresAt
                    THEN result[c].remaining =
                            RefilledSince(e.lastRefill, call[c].now)
                    ELSE result[c].remaining = capacity \div Scale

\* A check of a bucket emptied part-way through an interval, made after the
\* interval's end and less than a whole interval after the emptying.
RefillWitness ==
    \E c \in Callers :
        /\ Checked(c)
        /\ \E e \in emptied[call[c].key] :
              /\ e.lastRefill < e.at
              /\ call[c].now > e.at
              /\ call[c].now < e.at + refillInterval
              /\ call[c].now < e.expiresAt
              /\ result[c].remaining >= 1

\* C6: check is side-effect-free: neither of its steps writes an entry, what
\* a later get would return is the same before and after for every key (the
\* entries that stay are unchanged and the one a check can drop was already
\* unreadable), and a check returns what the previous check of the key at the
\* same instant returned when no consume came in between.

CheckSideEffectFree ==
    [][\A c \in Callers :
          (CallStep(c) /\ call'[c].op = "check") =>
              /\ \A k \in DOMAIN store' : k \in DOMAIN store /\ store'[k] = store[k]
              /\ \A k \in Keys :
                    Readable(store', k, clock) = Readable(store, k, clock)
              /\ (call'[c].pc = "done" /\ call[c].now = clock) =>
                    \A p \in lastCheck[call[c].key] : result'[c] = p.result]_vars

\* A check repeated at one instant on a bucket that is below capacity.
CheckWitness ==
    \E c \in Callers :
        /\ Checked(c)
        /\ call[c].key \in DOMAIN store
        /\ result[c].remaining * Scale < capacity
        /\ \E p \in lastCheck[call[c].key] : p.count = 2 /\ p.result = result[c]

\* C10: after a single-token consume is rejected with retryAfter = r at time
\* t and no other call consumes from the key, a consume(key) issued at
\* t + r * 1000 ms is admitted.
RetryAfterAdmits ==
    [][\A c \in Callers :
          (/\ CallStep(c)
           /\ call'[c].pc = "done"
           /\ call[c].op = "consume"
           /\ call[c].tokens = Scale
           /\ call[c].now \in retryAt[call[c].key]) => result'[c].allowed]_vars

\* C11: resetAt is the instant at which the bucket is next completely full:
\* after a result with resetAt = R returned by a call at time t, and with no
\* consume admitted since, a check at a time >= max(R, t) reports
\* remaining = capacity and a check at a time t' with t <= t' < R reports
\* remaining < capacity.
ResetAtIsFullInstant ==
    \A c \in Callers :
        Checked(c) =>
            \A e \in reset[call[c].key] :
                call[c].now >= e.at =>
                    IF call[c].now >= Max(e.resetAt, e.at)
                    THEN result[c].remaining * Scale = capacity
                    ELSE result[c].remaining * Scale < capacity

\* C12 as stated: every result returned by consume(key, n), admitted or
\* rejected and in any bucket state, has resetAt >= the time of the call.  It
\* is stated here for the calls that ask for a positive amount and load a
\* state of at most capacity tokens.
ResetAtNotBeforeCall ==
    \A c \in Callers :
        (Consumed(c) /\ call[c].tokens > 0 /\ call[c].state.tokens <= capacity) =>
            result[c].resetAt >= call[c].now

\* The last instant of a bucket's refill schedule at or before now.
LastRefillInstant(state, now) ==
    state.lastRefill
        + ((now - state.lastRefill) \div refillInterval) * refillInterval

\* C12, amended: a consume result that reports a bucket below capacity has
\* resetAt later than the time of the call; one that reports a bucket at
\* capacity has resetAt = lastRefill(now), the last refill instant at or
\* before the call, which is earlier than the call when the call is made off
\* the refill schedule.
ResetAtOfConsume ==
    \A c \in Callers :
        Consumed(c) =>
            LET T == RefilledTokens(call[c].state, call[c].now)
                left == IF result[c].allowed THEN T - call[c].tokens ELSE T
                L == LastRefillInstant(call[c].state, call[c].now)
            IN  IF left < capacity
                THEN result[c].resetAt > call[c].now
                ELSE /\ result[c].resetAt = L
                     /\ L <= call[c].now
                     /\ call[c].now < L + refillInterval

\* A consume of more than the capacity, rejected by a full bucket part-way
\* through an interval: its resetAt is before the call.
ResetAtOfConsumeWitness ==
    \E c \in Callers :
        /\ Consumed(c)
        /\ ~result[c].allowed
        /\ call[c].tokens > capacity
        /\ call[c].key \in DOMAIN store
        /\ result[c].resetAt < call[c].now

\* The instant at which a stored state, refilled lazily, reaches capacity.
FullInstant(state) ==
    IF state.tokens >= capacity THEN state.lastRefill
    ELSE LET needed == capacity - state.tokens
             intervals == (needed + refillRate - 1) \div refillRate
         IN  state.lastRefill + intervals * refillInterval

\* C13: the derived TTL is long enough that a bucket is never evicted while
\* it could still be below full: the expiry instant of every entry consume
\* writes is not earlier than the instant at which the lazily refilled bucket
\* reaches capacity.
ExpiryNotBeforeFull ==
    \A k \in DOMAIN store : store[k].expiresAt >= FullInstant(store[k].state)

\* A call that has sampled the reference buckets of its key.
Sampled(c) == call[c].pc \in {"await", "done"}

\* C14 as stated: the token count the engine computes for a key at a call
\* equals that of a reference bucket created full at the key's first access
\* that adds refillRate tokens (capped at capacity) at every refillInterval
\* tick and subtracts n at each admitted consume, sampled at the call time.
\* It is stated here for the configurations whose TTL covers a whole refill
\* and the runs that keep the reference bucket within its capacity.
LazyRefillMatchesFirstAccessBucket ==
    \A c \in Callers :
        Sampled(c) =>
            \A r \in reference[call[c].key] :
                (refillRate <= 2 * capacity /\ r.first.sampled <= capacity) =>
                    RefilledTokens(call[c].state, call[c].now) = r.first.sampled

\* C14, amended: the token count the engine computes at a call equals that
\* of a reference bucket created full at every access that finds no live
\* entry of the key in the store (so at the key's first consume and at the
\* first access after its entry has expired, not at an earlier check), that
\* adds refillRate tokens (capped at capacity) at every refillInterval tick
\* counted from its creation and subtracts n from its count, capped at
\* capacity, at each admitted consume.
LazyRefillMatchesStoredBucket ==
    \A c \in Callers :
        Sampled(c) =>
            \A r \in reference[call[c].key] :
                RefilledTokens(call[c].state, call[c].now) = r.stored.sampled

\* A call that finds a bucket below capacity which has gained tokens at ticks
\* of its own schedule since it was last written, part-way through an
\* interval.
LazyRefillWitness ==
    \E c \in Callers :
        /\ Sampled(c)
        /\ call[c].key \in DOMAIN store
        /\ call[c].state.lastRefill + refillInterval < call[c].now
        /\ LastRefillInstant(call[c].state, call[c].now) < call[c].now
        /\ \E r \in reference[call[c].key] :
              /\ r.stored.sampled > call[c].state.tokens
              /\ r.stored.sampled < capacity

\* C15: configuration errors are rejected at construction: a limiter with a
\* non-positive capacity, refillRate or refillInterval is never constructed,
\* so no check or consume call runs against such a configuration.
CallsRunOnPositiveConfiguration ==
    \A c \in Callers :
        call[c].pc # "idle" =>
            capacity > 0 /\ refillRate > 0 /\ refillInterval > 0

\* C16: a store failure propagates unchanged and is not retried: when get
\* fails during check or consume the call fails with that same error after
\* exactly one get attempt and makes no set; when set fails during consume
\* the call fails with that error after exactly one set attempt and returns
\* no result.
StoreFailurePropagates ==
    [][\A c \in Callers :
          \A f \in fault'[c].injected :
              CallStep(c) =>
                  /\ call'[c].pc = "failed"
                  /\ fault'[c].thrown = {f.error}
                  /\ fault'[c].gets = 1
                  /\ result'[c] = result[c]
                  /\ f.on = "get" =>
                        /\ call'[c].op \in {"check", "consume"}
                        /\ fault'[c].sets = 0
                        /\ store' = store
                  /\ f.on = "set" =>
                        /\ call'[c].op = "consume"
                        /\ fault'[c].sets = 1
                        /\ store' = store]_vars

\* A consume failed by its set after an earlier consume of the key had
\* returned a result and written its entry, both left as they were.
StoreFailureWitness ==
    \E c \in Callers :
        /\ call[c].pc = "failed"
        /\ call[c].op = "consume"
        /\ fault[c].injected = {[error |-> "timeout", on |-> "set"]}
        /\ fault[c].thrown = {"timeout"}
        /\ result[c].allowed
        /\ call[c].key \in DOMAIN store
        /\ store[call[c].key].state = call[c].state

\* Two consume calls of one key that were in flight together: both read the
\* same stored state at the same instant, before either wrote, and both were
\* admitted.
BothAdmitted(c, d) ==
    /\ c # d
    /\ Consumed(c) /\ Consumed(d)
    /\ call[c].key = call[d].key
    /\ call[c].state = call[d].state
    /\ call[c].now = call[d].now
    /\ result[c].allowed /\ result[d].allowed

\* C17: consume is a non-atomic read-then-write: when two concurrent consume
\* calls for the same key have read the same pre-update state and both have
\* been admitted and written, the stored token count is the count they read
\* less one call's amount only (a lost update), not less both.
LostUpdate ==
    \A c, d \in Callers :
        (BothAdmitted(c, d) /\ call[c].key \in DOMAIN store) =>
            LET T == RefilledTokens(call[c].state, call[c].now)
            IN  \/ store[call[c].key].state.tokens = T - call[c].tokens
                \/ store[call[c].key].state.tokens = T - call[d].tokens

\* Two concurrent single-token consumes of a bucket that held one token,
\* both admitted: two tokens admitted, one deducted.
LostUpdateWitness ==
    \E c, d \in Callers :
        /\ BothAdmitted(c, d)
        /\ call[c].key \in DOMAIN store
        /\ call[c].tokens = Scale /\ call[d].tokens = Scale
        /\ RefilledTokens(call[c].state, call[c].now) = Scale
        /\ call[c].tokens + call[d].tokens
              > RefilledTokens(call[c].state, call[c].now)
        /\ store[call[c].key].state.tokens = 0

\* The other keys' entries are what they were.
OthersKept(key) ==
    \A j \in Keys \ {key} :
        /\ j \in DOMAIN store' <=> j \in DOMAIN store
        /\ j \in DOMAIN store => store'[j] = store[j]

\* C18: get(key) returns the stored state if and only if an entry exists
\* and now < expiresAt; when the entry is missing or expiresAt <= now
\* (exactly at expiresAt included) it returns absent and, in the expired
\* case, removes the entry from the table; the entries of other keys stay
\* as they are.
GetReadsLiveEntry ==
    [][last'.op = "get" =>
          LET key == last'.key
          IN  /\ IF key \in DOMAIN store /\ clock < store[key].expiresAt
                 THEN /\ last'.returned = {store[key].state}
                      /\ store' = store
                 ELSE /\ last'.returned = {}
                      /\ key \notin DOMAIN store'
              /\ OthersKept(key)]_vars

\* A get made exactly at the expiry instant of its key's entry, which it
\* removed, while the other key's entry, expiring later, stayed.
GetWitness ==
    /\ last.op = "get"
    /\ last.at = clock
    /\ last.returned = {}
    /\ \E e \in last.found : e.expiresAt = clock /\ e.expiresAt > 0
    /\ last.key \notin DOMAIN store
    /\ \E j \in DOMAIN store : store[j].expiresAt > clock

\* C19: after set(key, state, ttlMs) with ttlMs > 0 an immediate get(key)
\* returns a state equal to the one written; a set on a key that has an
\* entry replaces both the state and the expiry, expiresAt = time of the
\* latest set + its ttlMs, whether the earlier TTL was longer or shorter.
SetThenGet ==
    [][/\ (last'.op = "set") =>
             (/\ last'.key \in DOMAIN store'
              /\ store'[last'.key] =
                    [state |-> last'.state, expiresAt |-> clock + last'.ttlMs]
              /\ OthersKept(last'.key))
       /\ (/\ last'.op = "get"
           /\ last.op = "set"
           /\ last.key = last'.key
           /\ last.at = clock
           /\ last.ttlMs > 0) => (last'.returned = {last.state})]_vars

\* A set that has replaced an entry due to expire later by a different state
\* with a shorter life, while the other key has an entry.
SetThenGetWitness ==
    /\ last.op = "set"
    /\ last.at = clock
    /\ last.ttlMs > 0
    /\ \E e \in last.found :
          /\ e.expiresAt > clock + last.ttlMs
          /\ e.state # last.state
    /\ store[last.key].expiresAt = clock + last.ttlMs
    /\ DOMAIN store = Keys

\* The keys whose entries have not expired.
Live(s, now) == {k \in DOMAIN s : s[k].expiresAt > now}

\* C20: a background sweep removes exactly the entries whose
\* expiresAt <= now and leaves every unexpired entry with its state and
\* expiry unchanged; immediately after a sweep, size() equals the number of
\* live (unexpired) entries.
SweepRemovesExpired ==
    [][last'.op = "sweep" =>
          /\ DOMAIN store' = Live(store, clock)
          /\ \A k \in DOMAIN store' : store'[k] = store[k]
          /\ last'.size = Cardinality(Live(store', clock))
          /\ last'.size = Cardinality(Live(store, clock))]_vars

\* A sweep that removed one entry, expired, and left the other, live.
SweepWitness ==
    /\ last.op = "sweep"
    /\ last.at = clock
    /\ last.sizeBefore = 2
    /\ last.size = 1
    /\ \E k \in DOMAIN store : store[k].expiresAt > clock

\* C21: destroy() leaves the table empty (size() = 0) and the timer cleared;
\* once the timer is cleared it stays cleared and no sweep runs on the store
\* again, whatever get, set, delete or destroy follows; and a destroy() that
\* follows a destroy() changes neither the table nor the timer.
Destroyed == ~cleanupTimer

TeardownIsFinal ==
    [][/\ (last'.op = "destroy" /\ last' # last)
           => (size(store') = 0 /\ last'.size = 0 /\ Destroyed')
       /\ Destroyed => Destroyed'
       /\ (Destroyed /\ last' # last) => last'.op # "sweep"
       /\ (last.op = "destroy" /\ last'.op = "destroy")
           => (store' = store /\ cleanupTimer' = cleanupTimer)]_vars

\* A destroyed store is written again and afterwards holds an expired entry
\* that no sweep removes.
TeardownWitness ==
    /\ Destroyed
    /\ last.op = "tick"
    /\ \E k \in Keys : k \in DOMAIN store /\ store[k].expiresAt < clock

\* C22: a call that finds no readable entry for its key (never written,
\* deleted, or expired) computes from a full bucket whose lastRefill is the
\* call time, and a check that computed from it returns allowed = true and
\* remaining = capacity.
FreshState(now) == [tokens |-> capacity, lastRefill |-> now]

UnreadableKeyIsFresh ==
    [][\A c \in Callers :
          /\ (CallStep(c) /\ call'[c].pc = "await"
                 /\ Readable(store, call'[c].key, clock) = {})
             => (/\ call'[c].state = FreshState(clock)
                 /\ call'[c].now = clock)
          /\ (CallStep(c) /\ Checked(c)' /\ call[c].state = FreshState(call[c].now))
             => (/\ result'[c].allowed
                 /\ result'[c].remaining * Scale = capacity)]_vars

\* A check made after time has passed finds no entry for its key in the
\* table and is answered from a full bucket created at the call time.
UnreadableKeyWitness ==
    \E c \in Callers :
       /\ Checked(c)
       /\ call[c].state = FreshState(call[c].now)
       /\ call[c].now > 0
       /\ call[c].key \notin DOMAIN store
       /\ result[c].allowed
       /\ result[c].remaining * Scale = capacity

\* C23: RateLimiter.destroy() on a limiter constructed without a storage
\* option destroys the MemoryStorage it created (timer cleared, table empty);
\* on a limiter given a store it leaves that store's entries and its sweep
\* timer as they were.
FacadeDestroyed == last'.op = "limiter.destroy" /\ last' # last

DestroyReleasesOwnStoreOnly ==
    [][FacadeDestroyed =>
          IF ownsStorage
          THEN store' = <<>> /\ ~cleanupTimer'
          ELSE store' = store /\ cleanupTimer' = cleanupTimer]_vars

\* destroy() was called on a limiter that was given a store: the store still
\* holds an entry and its sweep timer is still set.
SuppliedStoreWitness ==
    /\ ~ownsStorage
    /\ last.op = "limiter.destroy"
    /\ last.size > 0
    /\ store # <<>>
    /\ cleanupTimer

\* C24: every request leaves the middleware by exactly one call.  A skipped
\* request calls next() and consume is not called, so the table, the calls
\* and the results stay as they were.  Any other request calls consume once,
\* for one token of the generated key, and then calls next() iff the result
\* is allowed and the rate-limited handler (status 429) iff it is not, or
\* next(error) with the store's error when a store operation rejected.
Handled(c) == request[c].pc = "done"

ExitTaken(c) ==
    /\ Len(request[c].exits) = 1
    /\ IF request[c].skip
       THEN /\ request[c].exits[1] = CallNext
            /\ request[c].consumes = 0
       ELSE /\ request[c].consumes = 1
            /\ call[c].op = "consume"
            /\ call[c].key = request[c].key
            /\ call[c].tokens = Scale
            /\ IF fault[c].thrown # {}
               THEN \E e \in fault[c].thrown :
                       request[c].exits[1] = CallNextError(e)
               ELSE /\ Consumed(c)
                    /\ (request[c].exits[1] = CallNext) <=> result[c].allowed
                    /\ (request[c].exits[1] = CallOnRateLimited)
                          <=> ~result[c].allowed

MiddlewareTakesOneExit ==
    [][\A c \in Callers :
          /\ (request'[c] # request[c] /\ Handled(c)') => ExitTaken(c)'
          /\ (request'[c] # request[c] /\ request'[c].skip)
             => (store' = store /\ call' = call /\ result' = result)]_vars

\* A request was rejected by the rate-limited handler after an earlier one
\* had been let through.
MiddlewareWitness ==
    \E c \in Callers :
       /\ Handled(c)
       /\ request[c].exits = <<CallOnRateLimited>>
       /\ ~result[c].allowed
       /\ request[c].key \in DOMAIN store

\* C25: an admitted consume(key, n) makes exactly one set, writing
\* {tokens: tokens(now) - n, lastRefill: lastRefill(now)} with the limiter's
\* TTL, and a check of the key at the same time right after it reports
\* remaining = floor(tokens(now) - n).
WrittenAsComputed(w) ==
    /\ w.sets = 1
    /\ w.entry.state.tokens = RefilledTokens(w.found, w.at) - w.amount
    /\ w.entry.state.lastRefill =
          w.found.lastRefill
             + ((w.at - w.found.lastRefill) \div refillInterval) * refillInterval
    /\ w.entry.expiresAt = w.setAt + ttlMs

ConsumeWritesWhatCheckReads ==
    [][\A c \in Callers :
          /\ (CallStep(c) /\ Consumed(c)' /\ result'[c].allowed)
             => \A w \in written'[call[c].key] : WrittenAsComputed(w)
          /\ (CallStep(c) /\ Checked(c)')
             => \A w \in written[call[c].key] :
                   (w.at = call[c].now /\ w.setAt = call[c].now)
                   => result'[c].remaining = floor(w.entry.state.tokens)]_vars

\* C26: the TTL passed to storage.set by every admitted consume is
\* 2 * ceil(capacity / refillRate) * refillInterval.
TtlIsTwiceWholeRefillTime ==
    \A k \in Keys :
       \A w \in written[k] :
          w.entry.expiresAt - w.setAt
             = 2 * CeilDiv(capacity, refillRate) * refillInterval

\* C27: every lastRefill an admitted consume persists satisfies
\* lastRefill <= now < lastRefill + refillInterval for the now of the call,
\* and, while the key's bucket lives (from the write that created it to its
\* deletion or expiry), is not below the lastRefill written before it and is
\* the creation lastRefill plus a non-negative whole number of intervals.
Persisted(c) == CallStep(c) /\ Consumed(c)' /\ result'[c].allowed

SweepIsInvisible ==
    /\ \A k \in Keys : get(store, k, clock) = get(shadow, k, clock)
    /\ \A k \in DOMAIN store : k \in DOMAIN shadow /\ shadow[k] = store[k]
    /\ \A k \in DOMAIN shadow \ DOMAIN store : shadow[k].expiresAt <= clock
    /\ size(store) <= size(shadow)

\* A consume has read its key's entry and awaits; the entry has expired since
\* and a sweep has removed it before the consume writes.
SweepDuringConsumeWitness ==
    \E c \in Callers :
       /\ call[c].pc = "await"
       /\ last.op = "sweep"
       /\ call[c].key \notin DOMAIN store
       /\ call[c].key \in DOMAIN shadow
       /\ shadow[call[c].key].state = call[c].state

\* C29: on a store that has not been destroyed, a sweep leaves no entry whose
\* expiresAt has passed, and, the sweep timer being fair, an entry whose
\* expiresAt has passed does not stay in the table forever, whether or not
\* it is read again.
Lingering(k) ==
    /\ cleanupTimer
    /\ k \in DOMAIN store
    /\ store[k].expiresAt <= clock

ExpiredEntriesAreRemoved ==
    /\ [][(last'.op = "sweep" /\ last' # last)
            => \A k \in Keys : ~Lingering(k)']_vars
    /\ \A k \in Keys : Lingering(k) ~> ~Lingering(k)

\* A sweep has just removed an expired entry from a store whose timer is set.
ExpiredEntryWitness ==
    /\ cleanupTimer
    /\ last.op = "sweep"
    /\ last.at = clock
    /\ last.sizeBefore > last.size
    /\ clock > 0

\* C30: with one call at a time, the tokens consume has admitted on a key
\* from its first consume at t0 up to a consume at t are at most
\* capacity + refillRate * floor((t - t0) / refillInterval).
RateBound(a) ==
    capacity + refillRate * ((a.latest - a.first) \div refillInterval)

AdmittedWithinRateBound ==
    \A k \in Keys : \A a \in admittedSince[k] : a.total <= RateBound(a)

\* C31: on a key where no other consume is admitted, a consume(key, n) with
\* 1 <= n <= capacity that is retried as time advances is eventually
\* admitted; a consume(key, n) with n > capacity is rejected whenever it is
\* made, writes nothing, and leaves what get returns for every key as it was.
Wanted(c, n) == \E r \in pending[c] : r.n = n /\ ~r.admitted

Granted(c, n) == \E r \in pending[c] : r.n = n /\ r.admitted

====
